---- MODULE Spec2Model ----
(***************************************************************************)
(* Database Learning Platform API (main.py): startup seeding of the        *)
(* curriculum, quiz grading and progress aggregation over a document       *)
(* store.                                                                  *)
(*                                                                         *)
(* Documents are records.  Free-text fields that no handler reads          *)
(* (description, tags, content, prompt, explanation, created_at) are not   *)
(* carried; every field a handler reads or filters on is.                  *)
(*                                                                         *)
(* seed_data is the only place that catches a failing store call, and its  *)
(* store calls may fail at every step.  The store calls of the request     *)
(* handlers are taken to return: a call that raises leaves the handler     *)
(* with the exception and the store as it was.                             *)
(***************************************************************************)
EXTENDS Integers, Sequences, FiniteSets, TLC

VARIABLES
    db,        \* the document store: collection name -> documents, in insertion order
    nextId,    \* the next identifier the store assigns
    phase,     \* "startup" while seed_data runs, "serving" once requests are handled
    seedStep,  \* index into Desired of the ensure_* call seed_data is at
    seedAt,    \* the store call that ensure_* is suspended on: "get" or "create"
    seedErr,   \* the exception seed_data caught and printed, or "none"
    passes,    \* number of startups so far
    tasks,     \* submit_attempt coroutines: task -> frame
    resp       \* the response of the request that returned last

vars == <<db, nextId, phase, seedStep, seedAt, seedErr, passes, tasks, resp>>

(***************************************************************************)
(* Bounds                                                                  *)
(***************************************************************************)
MaxPrior == 2        \* documents already in the store before the first startup
MaxPasses == 2       \* startups
NTasks == 2          \* submit_attempt requests in flight together
MaxLen == 2          \* questions of the exhaustively enumerated quizzes
MaxQuestions == 50   \* questions of the longest quiz
MaxAttempts == 2     \* attempts stored by a worker that takes request after request
MaxHistory == 3      \* attempts of a drawn attempt history

Max(a, b) == IF a >= b THEN a ELSE b
Min(a, b) == IF a <= b THEN a ELSE b

(***************************************************************************)
(* The document store (database.get_documents / database.create_document)  *)
(***************************************************************************)
Collections == {"track", "lesson", "quiz", "attempt"}

EmptyDb == [c \in Collections |-> <<>>]

\* a document matches a filter when it carries every filtered field with that value
Matches(doc, filter) ==
    \A f \in DOMAIN filter : f \in DOMAIN doc /\ doc[f] = filter[f]

get_documents(store, coll, filter, limit) ==
    LET found == SelectSeq(store[coll], LAMBDA d : Matches(d, filter))
    IN  SubSeq(found, 1, Min(limit, Len(found)))

\* the stored document is the given one plus the identifier the store assigns
create_document(store, coll, doc, id) ==
    [store EXCEPT ![coll] = Append(@, [_id |-> id] @@ doc)]

(***************************************************************************)
(* The curriculum seed_data wants in the store, in the order it ensures it *)
(***************************************************************************)
TrackDoc(title, slug, level) ==
    [title |-> title, slug |-> slug, level |-> level]

LessonDoc(track_slug, title, slug, difficulty, order) ==
    [track_slug |-> track_slug, title |-> title, slug |-> slug,
     difficulty |-> difficulty, order |-> order]

Question(options, answer_index) ==
    [options |-> options, answer_index |-> answer_index]

QuizDoc(lesson_slug, title, questions) ==
    [lesson_slug |-> lesson_slug, title |-> title, questions |-> questions]

SeedTracks == <<
    TrackDoc("SECTION I", "section-i", "beginner"),
    TrackDoc("SECTION II", "section-ii", "intermediate") >>

SeedLessons == <<
    LessonDoc("section-i", "UNIT 1", "unit-1-intro-db", "easy", 1),
    LessonDoc("section-i", "UNIT 2", "unit-2-relational", "easy", 2),
    LessonDoc("section-i", "UNIT 3", "unit-3-sql", "easy", 3),
    LessonDoc("section-ii", "UNIT 4", "unit-4-design", "intermediate", 1),
    LessonDoc("section-ii", "UNIT 5", "unit-5-indexing", "intermediate", 2),
    LessonDoc("section-ii", "UNIT 6", "unit-6-transactions", "intermediate", 3),
    LessonDoc("section-ii", "UNIT 7", "unit-7-concurrency", "intermediate", 4) >>

SeedQuizzes == <<
    QuizDoc("unit-1-intro-db", "Unit 1 Quiz",
        << Question(<<"Atomicity", "Consistency", "Isolation", "Distribution">>, 3) >>),
    QuizDoc("unit-2-relational", "Unit 2 Quiz",
        << Question(<<"Projection", "Selection", "Union", "Join">>, 1) >>),
    QuizDoc("unit-3-sql", "Unit 3 Quiz",
        << Question(<<"WHERE", "GROUP BY", "ORDER BY", "HAVING">>, 1) >>),
    QuizDoc("unit-4-design", "Unit 4 Quiz",
        << Question(<<"Update anomalies", "Lost updates", "Phantoms", "Buffer thrashing">>, 0) >>),
    QuizDoc("unit-5-indexing", "Unit 5 Quiz",
        << Question(<<"Leaves only", "Internal only", "Both internal and leaves", "Neither">>, 2) >>),
    QuizDoc("unit-6-transactions", "Unit 6 Quiz",
        << Question(<<"Dirty reads", "Non-repeatable reads", "Phantoms", "Deadlocks">>, 0) >>),
    QuizDoc("unit-7-concurrency", "Unit 7 Quiz",
        << Question(<<"Timestamp ordering", "Two-phase locking", "Optimistic CC", "MVCC">>, 1) >>) >>

\* the natural-key filter each ensure_* helper queries with
ensure_track_filter(t) == [slug |-> t.slug]
ensure_lesson_filter(l) == [slug |-> l.slug]
ensure_quiz_filter_copied(q) == [slug |-> q.lesson_slug]
ensure_quiz_filter(q) == [lesson_slug |-> q.lesson_slug]

\* the ensure_* calls of seed_data, in program order
Desired ==
    [i \in 1..Len(SeedTracks) |->
        [coll |-> "track", doc |-> SeedTracks[i], filter |-> ensure_track_filter(SeedTracks[i])]]
    \o [i \in 1..Len(SeedLessons) |->
        [coll |-> "lesson", doc |-> SeedLessons[i], filter |-> ensure_lesson_filter(SeedLessons[i])]]
    \o [i \in 1..Len(SeedQuizzes) |->
        [coll |-> "quiz", doc |-> SeedQuizzes[i], filter |-> ensure_quiz_filter(SeedQuizzes[i])]]

NDesired == Len(Desired)

(***************************************************************************)
(* seed_data: one step per store call                                      *)
(***************************************************************************)
TaskIds == 1..NTasks
IdleTasks == [t \in TaskIds |-> [pc |-> "idle"]]
NoResp == [req |-> <<"none">>, status |-> 0]

\* the except clause: print the error and return, so that startup completes
seed_except_reraise == /\ seedErr' = "error"
                       /\ phase' = "crashed"
seed_except == /\ seedErr' = "error"
               /\ phase' = "serving"

\* existing = await get_documents(coll, key, limit=1); if not existing: ...
ensure_get_inverted ==
    /\ phase = "startup" /\ seedStep <= NDesired /\ seedAt = "get"
    /\ LET e        == Desired[seedStep]
           existing == get_documents(db, e.coll, e.filter, 1)
       IN  IF existing # <<>>
           THEN /\ seedAt' = "create"
                /\ seedStep' = seedStep
           ELSE /\ seedAt' = "get"
                /\ seedStep' = seedStep + 1
    /\ UNCHANGED <<db, nextId, phase, seedErr, passes, tasks, resp>>

ensure_get ==
    /\ phase = "startup" /\ seedStep <= NDesired /\ seedAt = "get"
    /\ LET e        == Desired[seedStep]
           existing == get_documents(db, e.coll, e.filter, 1)
       IN  IF existing = <<>>
           THEN /\ seedAt' = "create"
                /\ seedStep' = seedStep
           ELSE /\ seedAt' = "get"
                /\ seedStep' = seedStep + 1
    /\ UNCHANGED <<db, nextId, phase, seedErr, passes, tasks, resp>>

\* get_documents raises
ensure_get_fails ==
    /\ phase = "startup" /\ seedStep <= NDesired /\ seedAt = "get"
    /\ seed_except
    /\ UNCHANGED <<db, nextId, seedStep, seedAt, passes, tasks, resp>>

\* await create_document(coll, doc.model_dump())
ensure_create ==
    /\ phase = "startup" /\ seedStep <= NDesired /\ seedAt = "create"
    /\ db' = create_document(db, Desired[seedStep].coll, Desired[seedStep].doc, nextId)
    /\ nextId' = nextId + 1
    /\ seedStep' = seedStep + 1
    /\ seedAt' = "get"
    /\ UNCHANGED <<phase, seedErr, passes, tasks, resp>>

\* create_document raises
ensure_create_fails ==
    /\ phase = "startup" /\ seedStep <= NDesired /\ seedAt = "create"
    /\ seed_except
    /\ UNCHANGED <<db, nextId, seedStep, seedAt, passes, tasks, resp>>

\* the try block ran to its end
seed_return ==
    /\ phase = "startup" /\ seedStep = NDesired + 1
    /\ phase' = "serving"
    /\ UNCHANGED <<db, nextId, seedStep, seedAt, seedErr, passes, tasks, resp>>

\* the process is started again against the same store
restart ==
    /\ phase = "serving" /\ passes < MaxPasses
    /\ phase' = "startup"
    /\ seedStep' = 1
    /\ seedAt' = "get"
    /\ seedErr' = "none"
    /\ passes' = passes + 1
    /\ UNCHANGED <<db, nextId, tasks, resp>>

\* a store that already holds the desired documents numbered by S
RECURSIVE PriorDb(_, _, _, _)
PriorDb(S, i, store, id) ==
    IF i > NDesired THEN store
    ELSE IF i \in S
         THEN PriorDb(S, i + 1, create_document(store, Desired[i].coll, Desired[i].doc, id), id + 1)
         ELSE PriorDb(S, i + 1, store, id)

PriorSets == {S \in SUBSET (1..NDesired) : Cardinality(S) <= MaxPrior}

InitSeed ==
    /\ \E S \in PriorSets :
          /\ db = PriorDb(S, 1, EmptyDb, 1)
          /\ nextId = Cardinality(S) + 1
    /\ phase = "startup"
    /\ seedStep = 1
    /\ seedAt = "get"
    /\ seedErr = "none"
    /\ passes = 1
    /\ tasks = IdleTasks
    /\ resp = NoResp

NextSeed ==
    \/ ensure_get
    \/ ensure_get_fails
    \/ ensure_create
    \/ ensure_create_fails
    \/ seed_return
    \/ restart

SpecSeed == InitSeed /\ [][NextSeed]_vars

(***************************************************************************)
(* IEEE-754 binary64 arithmetic, as far as submit_attempt uses it:         *)
(* correct / max(1, n) is true division of two ints, * 100 a float product *)
(* and int() truncation.  A positive double is a 53-bit mantissa m (most   *)
(* significant bit first, m[1] = 1) and an exponent e, of value            *)
(* m * 2^(e - 52).                                                         *)
(***************************************************************************)
MantBits == 53
LimbBits == 18
ProdBits == 60

RECURSIVE Zeros(_)
Zeros(n) == IF n = 0 THEN <<>> ELSE <<0>> \o Zeros(n - 1)

Pow2(n) == 2 ^ n

RECURSIVE BitsToInt(_)
BitsToInt(b) ==
    IF b = <<>> THEN 0 ELSE 2 * BitsToInt(SubSeq(b, 1, Len(b) - 1)) + b[Len(b)]

IntToBits(n, w) == [i \in 1..w |-> (n \div Pow2(w - i)) % 2]

\* the next n quotient bits of r / d, for a remainder r < d
RECURSIVE DivBits(_, _, _)
DivBits(r, d, n) ==
    IF n = 0 THEN <<>>
    ELSE LET b == IF 2 * r >= d THEN 1 ELSE 0
         IN  <<b>> \o DivBits(2 * r - b * d, d, n - 1)

\* the remainder left after those n bits
RECURSIVE DivRem(_, _, _)
DivRem(r, d, n) ==
    IF n = 0 THEN r
    ELSE LET b == IF 2 * r >= d THEN 1 ELSE 0
         IN  DivRem(2 * r - b * d, d, n - 1)

\* b + 1 for a bit string that is not all ones
IncBits(b) ==
    LET j == CHOOSE i \in 1..Len(b) : b[i] = 0 /\ \A k \in (i + 1)..Len(b) : b[k] = 1
    IN  [i \in 1..Len(b) |-> IF i < j THEN b[i] ELSE IF i = j THEN 1 ELSE 0]

\* m * k for a 53-bit m and k < 128, in three limbs so that no product leaves 31 bits
MulBits(m, k) ==
    LET hi == BitsToInt(SubSeq(m, 1, MantBits - 2 * LimbBits))
        mi == BitsToInt(SubSeq(m, MantBits - 2 * LimbBits + 1, MantBits - LimbBits))
        lo == BitsToInt(SubSeq(m, MantBits - LimbBits + 1, MantBits))
        p0 == lo * k
        p1 == mi * k + p0 \div Pow2(LimbBits)
        p2 == hi * k + p1 \div Pow2(LimbBits)
    IN  IntToBits(p2, ProdBits - 2 * LimbBits)
          \o IntToBits(p1 % Pow2(LimbBits), LimbBits)
          \o IntToBits(p0 % Pow2(LimbBits), LimbBits)

RECURSIVE StripZeros(_)
StripZeros(b) == IF b # <<>> /\ b[1] = 0 THEN StripZeros(Tail(b)) ELSE b

FZero == [m |-> Zeros(MantBits), e |-> 0]

\* round to nearest, ties to even: b holds the mantissa and the bits below it
RoundBits(b, e) ==
    LET keep == SubSeq(b, 1, MantBits)
        rest == SubSeq(b, MantBits + 1, Len(b))
        up   == /\ rest # <<>>
                /\ rest[1] = 1
                /\ \/ keep[MantBits] = 1
                   \/ \E i \in 2..Len(rest) : rest[i] = 1
    IN  IF ~up THEN [m |-> keep, e |-> e]
        ELSE IF \A i \in 1..MantBits : keep[i] = 1
             THEN [m |-> <<1>> \o Zeros(MantBits - 1), e |-> e + 1]
             ELSE [m |-> IncBits(keep), e |-> e]

RECURSIVE ScaleUp(_, _)
ScaleUp(n, d) == IF n >= d THEN 0 ELSE 1 + ScaleUp(2 * n, d)

RECURSIVE ScaleDown(_, _)
ScaleDown(n, d) == IF n < 2 * d THEN 0 ELSE 1 + ScaleDown(n, 2 * d)

\* c / t, correctly rounded (c >= 0, t >= 1)
FDiv(c, t) ==
    IF c = 0 THEN FZero
    ELSE LET up == ScaleUp(c, t)
             dn == ScaleDown(c, t)
             n  == c * Pow2(up)
             d  == t * Pow2(dn)
             q  == <<1>> \o DivBits(n - d, d, MantBits - 1)
             r  == DivRem(n - d, d, MantBits - 1)
             g  == IF 2 * r >= d THEN 1 ELSE 0
             s  == IF 2 * r - g * d # 0 THEN 1 ELSE 0
         IN  RoundBits(q \o <<g, s>>, dn - up)

\* x * k, correctly rounded
FMul(x, k) ==
    IF x = FZero \/ k = 0 THEN FZero
    ELSE LET p == StripZeros(MulBits(x.m, k))
         IN  RoundBits(p, x.e + Len(p) - MantBits)

\* int(x) for x >= 0
FTrunc(x) == IF x.e < 0 THEN 0 ELSE BitsToInt(SubSeq(x.m, 1, x.e + 1))

(***************************************************************************)
(* Grading (submit_attempt)                                                *)
(***************************************************************************)
\* score = int((correct / max(1, len(quiz["questions"]))) * 100)
score_percent_undivided(correct, total) == FTrunc(FMul(FDiv(correct, 1), 100))
score_percent(correct, total) == FTrunc(FMul(FDiv(correct, Max(1, total)), 100))

\* for i, ans in enumerate(answers): if i < len(questions) and ans == questions[i].answer_index
RECURSIVE count_correct_short(_, _, _)
count_correct_short(answers, questions, i) ==
    IF i > Len(answers) THEN 0
    ELSE (IF i < Len(questions) /\ answers[i] = questions[i].answer_index THEN 1 ELSE 0)
         + count_correct_short(answers, questions, i + 1)

RECURSIVE count_correct(_, _, _)
count_correct(answers, questions, i) ==
    IF i > Len(answers) THEN 0
    ELSE (IF i <= Len(questions) /\ answers[i] = questions[i].answer_index THEN 1 ELSE 0)
         + count_correct(answers, questions, i + 1)

AttemptDoc_graded_only(user_email, quiz_id, answers, score) ==
    [user_email |-> user_email, quiz_id |-> quiz_id,
     answers |-> SubSeq(answers, 1, Min(1, Len(answers))), score |-> score]

AttemptDoc(user_email, quiz_id, answers, score) ==
    [user_email |-> user_email, quiz_id |-> quiz_id, answers |-> answers, score |-> score]

HTTPException(status, detail) == [status |-> status, detail |-> detail]
Ok(body) == [status |-> 200, body |-> body]

\* the request arrives; the handler suspends on its quiz lookup
submit_call(t, quiz_id, payload) ==
    /\ phase = "serving"
    /\ tasks[t].pc = "idle"
    /\ tasks' = [tasks EXCEPT ![t] = [pc |-> "lookup", quiz_id |-> quiz_id, payload |-> payload]]
    /\ UNCHANGED <<db, nextId, phase, seedStep, seedAt, seedErr, passes, resp>>

\* the lookup returns: 404, or grade and suspend on the attempt insert
submit_lookup_no_404(t) ==
    /\ phase = "serving"
    /\ tasks[t].pc = "lookup"
    /\ LET f       == tasks[t]
           quizzes == get_documents(db, "quiz", [_id |-> f.quiz_id], 1)
           quiz    == IF quizzes = <<>> THEN [questions |-> <<>>] ELSE quizzes[1]
           total   == Len(quiz.questions)
           correct == count_correct(f.payload.answers, quiz.questions, 1)
           score   == score_percent(correct, total)
       IN  tasks' = [tasks EXCEPT ![t] =
               [pc |-> "insert", quiz_id |-> f.quiz_id, payload |-> f.payload,
                attempt |-> AttemptDoc(f.payload.user_email, f.quiz_id,
                                       f.payload.answers, score),
                correct |-> correct, total |-> total]]
    /\ UNCHANGED <<db, nextId, phase, seedStep, seedAt, seedErr, passes, resp>>

submit_lookup(t) ==
    /\ phase = "serving"
    /\ tasks[t].pc = "lookup"
    /\ LET f       == tasks[t]
           quizzes == get_documents(db, "quiz", [_id |-> f.quiz_id], 1)
       IN  IF quizzes = <<>>
           THEN tasks' = [tasks EXCEPT ![t] =
                    [pc |-> "done", quiz_id |-> f.quiz_id, payload |-> f.payload,
                     resp |-> HTTPException(404, "Quiz not found")]]
           ELSE LET quiz    == quizzes[1]
                    total   == Len(quiz.questions)
                    correct == count_correct(f.payload.answers, quiz.questions, 1)
                    score   == score_percent(correct, total)
                IN  tasks' = [tasks EXCEPT ![t] =
                        [pc |-> "insert", quiz_id |-> f.quiz_id, payload |-> f.payload,
                         attempt |-> AttemptDoc(f.payload.user_email, f.quiz_id,
                                                f.payload.answers, score),
                         correct |-> correct, total |-> total]]
    /\ UNCHANGED <<db, nextId, phase, seedStep, seedAt, seedErr, passes, resp>>

\* the insert returns; the handler returns {score, correct, total}
submit_insert_upsert(t) ==
    /\ phase = "serving"
    /\ tasks[t].pc = "insert"
    /\ LET f    == tasks[t]
           same == [user_email |-> f.attempt.user_email, quiz_id |-> f.attempt.quiz_id]
           kept == SelectSeq(db["attempt"], LAMBDA d : ~Matches(d, same))
       IN  /\ db' = create_document([db EXCEPT !["attempt"] = kept], "attempt", f.attempt, nextId)
           /\ nextId' = nextId + 1
           /\ tasks' = [tasks EXCEPT ![t] =
                  [pc |-> "done", quiz_id |-> f.quiz_id, payload |-> f.payload,
                   resp |-> Ok([score |-> f.attempt.score, correct |-> f.correct,
                                total |-> f.total])]]
    /\ UNCHANGED <<phase, seedStep, seedAt, seedErr, passes, resp>>

submit_insert(t) ==
    /\ phase = "serving"
    /\ tasks[t].pc = "insert"
    /\ LET f == tasks[t]
       IN  /\ db' = create_document(db, "attempt", f.attempt, nextId)
           /\ nextId' = nextId + 1
           /\ tasks' = [tasks EXCEPT ![t] =
                  [pc |-> "done", quiz_id |-> f.quiz_id, payload |-> f.payload,
                   resp |-> Ok([score |-> f.attempt.score, correct |-> f.correct,
                                total |-> f.total])]]
    /\ UNCHANGED <<phase, seedStep, seedAt, seedErr, passes, resp>>

\* the response is sent and the frame is gone; the worker takes the next request
task_return(t) ==
    /\ phase = "serving"
    /\ tasks[t].pc = "done"
    /\ Len(db["attempt"]) < MaxAttempts
    /\ tasks' = [tasks EXCEPT ![t] = [pc |-> "idle"]]
    /\ UNCHANGED <<db, nextId, phase, seedStep, seedAt, seedErr, passes, resp>>

(***************************************************************************)
(* The read handlers: one store call each                                  *)
(***************************************************************************)
TrackLimit == 100
LessonLimit == 200
AttemptLimit == 1000
PassMark == 70

Response(req, r) == [req |-> req] @@ r

\* items.sort(key=lambda x: x.get("order", 0)): a stable sort
OrderOf(x) == IF "order" \in DOMAIN x THEN x.order ELSE 0

RECURSIVE InsertByOrder(_, _)
InsertByOrder(sorted, x) ==
    IF sorted = <<>> THEN <<x>>
    ELSE IF OrderOf(sorted[Len(sorted)]) <= OrderOf(x) THEN Append(sorted, x)
    ELSE Append(InsertByOrder(SubSeq(sorted, 1, Len(sorted) - 1), x), sorted[Len(sorted)])

RECURSIVE SortByOrder(_)
SortByOrder(items) ==
    IF items = <<>> THEN <<>>
    ELSE InsertByOrder(SortByOrder(SubSeq(items, 1, Len(items) - 1)), items[Len(items)])

list_tracks ==
    /\ phase = "serving"
    /\ resp' = Response(<<"list_tracks">>, Ok(get_documents(db, "track", <<>>, TrackLimit)))
    /\ UNCHANGED <<db, nextId, phase, seedStep, seedAt, seedErr, passes, tasks>>

list_lessons(slug) ==
    /\ phase = "serving"
    /\ LET items == get_documents(db, "lesson", [track_slug |-> slug], LessonLimit)
       IN  resp' = Response(<<"list_lessons", slug>>, Ok(SortByOrder(items)))
    /\ UNCHANGED <<db, nextId, phase, seedStep, seedAt, seedErr, passes, tasks>>

get_lesson(slug) ==
    /\ phase = "serving"
    /\ LET items == get_documents(db, "lesson", [slug |-> slug], 1)
       IN  resp' = Response(<<"get_lesson", slug>>,
                       IF items = <<>> THEN HTTPException(404, "Lesson not found")
                       ELSE Ok(items[1]))
    /\ UNCHANGED <<db, nextId, phase, seedStep, seedAt, seedErr, passes, tasks>>

get_quiz(slug) ==
    /\ phase = "serving"
    /\ LET items == get_documents(db, "quiz", [lesson_slug |-> slug], 1)
       IN  resp' = Response(<<"get_quiz", slug>>,
                       IF items = <<>> THEN HTTPException(404, "Quiz not found")
                       ELSE Ok(items[1]))
    /\ UNCHANGED <<db, nextId, phase, seedStep, seedAt, seedErr, passes, tasks>>

\* a.get("score", 0)
ScoreOf(a) == IF "score" \in DOMAIN a THEN a.score ELSE 0

\* for a in attempts: if qid not in by_quiz or score > by_quiz[qid]: by_quiz[qid] = score
RECURSIVE best_scores_last(_, _, _)
best_scores_last(attempts, i, by_quiz) ==
    IF i > Len(attempts) THEN by_quiz
    ELSE LET qid == attempts[i].quiz_id
         IN  best_scores_last(attempts, i + 1,
                 [q \in DOMAIN by_quiz \cup {qid} |->
                     IF q = qid THEN ScoreOf(attempts[i]) ELSE by_quiz[q]])

RECURSIVE best_scores(_, _, _)
best_scores(attempts, i, by_quiz) ==
    IF i > Len(attempts) THEN by_quiz
    ELSE LET qid == attempts[i].quiz_id
         IN  IF qid \notin DOMAIN by_quiz \/ ScoreOf(attempts[i]) > by_quiz[qid]
             THEN best_scores(attempts, i + 1,
                      [q \in DOMAIN by_quiz \cup {qid} |->
                          IF q = qid THEN ScoreOf(attempts[i]) ELSE by_quiz[q]])
             ELSE best_scores(attempts, i + 1, by_quiz)

get_progress(email) ==
    /\ phase = "serving"
    /\ LET attempts  == get_documents(db, "attempt", [user_email |-> email], AttemptLimit)
           by_quiz   == best_scores(attempts, 1, <<>>)
           completed == Cardinality({q \in DOMAIN by_quiz : by_quiz[q] >= PassMark})
       IN  resp' = Response(<<"get_progress", email>>,
                       Ok([quizzes_completed |-> completed, best_scores |-> by_quiz]))
    /\ UNCHANGED <<db, nextId, phase, seedStep, seedAt, seedErr, passes, tasks>>

(***************************************************************************)
(* Serving after a clean first startup                                     *)
(***************************************************************************)
SeededDb == PriorDb(1..NDesired, 1, EmptyDb, 1)

Emails == {"ann@example.org", "bob@example.org"}
\* an identifier the store assigns to no quiz
MissingId == NDesired + NTasks + MaxAttempts + 1
QuizIdInputs == {SeededDb["quiz"][1]._id, SeededDb["quiz"][2]._id, MissingId}
SubmitAnswers == {<<1>>, <<3, 1>>}
SlugInputs == {"section-ii", "unit-2-relational", "missing"}

Payloads(answerSet) == [user_email : Emails, answers : answerSet]

InitServing ==
    /\ db = SeededDb
    /\ nextId = NDesired + 1
    /\ phase = "serving"
    /\ seedStep = NDesired + 1
    /\ seedAt = "get"
    /\ seedErr = "none"
    /\ passes = 1
    /\ tasks = IdleTasks
    /\ resp = NoResp

\* concurrent submissions: every task serves one request
Next ==
    \/ \E t \in TaskIds, q \in QuizIdInputs, p \in Payloads(SubmitAnswers) : submit_call(t, q, p)
    \/ \E t \in TaskIds : submit_lookup(t)
    \/ \E t \in TaskIds : submit_insert(t)

Spec == InitServing /\ [][Next]_vars

\* one worker taking request after request, among the read requests
GradeTask == CHOOSE t \in TaskIds : \A u \in TaskIds : t <= u

NextRequests ==
    \/ \E q \in QuizIdInputs, p \in Payloads(SubmitAnswers) : submit_call(GradeTask, q, p)
    \/ submit_lookup(GradeTask)
    \/ submit_insert(GradeTask)
    \/ task_return(GradeTask)
    \/ list_tracks
    \/ \E slug \in SlugInputs : list_lessons(slug)
    \/ \E slug \in SlugInputs : get_lesson(slug)
    \/ \E slug \in SlugInputs : get_quiz(slug)
    \/ \E email \in Emails : get_progress(email)

SpecRequests == InitServing /\ [][NextRequests]_vars

(***************************************************************************)
(* Grading one drawn quiz: every short quiz, and long quizzes graded on    *)
(* every number of correct answers                                         *)
(***************************************************************************)
Options == <<"yes", "no">>
NumOptions == Len(Options)

SeqsUpTo(S, n) == UNION {[1..k -> S] : k \in 0..n}

ShortQuizzes ==
    {QuizDoc("drawn", "Drawn Quiz", [i \in 1..Len(ai) |-> Question(Options, ai[i])]) :
        ai \in SeqsUpTo(0..(NumOptions - 1), MaxLen)}

LongQuizzes ==
    {QuizDoc("drawn", "Drawn Quiz", [i \in 1..n |-> Question(Options, i % NumOptions)]) :
        n \in (MaxQuestions - 1)..MaxQuestions}

\* the first c answers right, the others wrong
PrefixRight(quiz, c) ==
    [i \in 1..Len(quiz.questions) |->
        IF i <= c THEN quiz.questions[i].answer_index
        ELSE (quiz.questions[i].answer_index + 1) % NumOptions]

AnswerInputs(quiz) ==
    IF Len(quiz.questions) <= MaxLen
    THEN SeqsUpTo(0..(NumOptions - 1), MaxLen + 1)
    ELSE {PrefixRight(quiz, c) : c \in 0..Len(quiz.questions)}

DrawnQuiz == db["quiz"][1]

InitDrawn(quizSet) ==
    /\ \E q \in quizSet : db = create_document(EmptyDb, "quiz", q, 1)
    /\ nextId = 2
    /\ phase = "serving"
    /\ seedStep = NDesired + 1
    /\ seedAt = "get"
    /\ seedErr = "none"
    /\ passes = 1
    /\ tasks = IdleTasks
    /\ resp = NoResp

InitGrade == InitDrawn(ShortQuizzes \cup LongQuizzes)

NextGrade ==
    \/ \E a \in AnswerInputs(DrawnQuiz) :
          submit_call(GradeTask, DrawnQuiz._id, [user_email |-> "ann@example.org", answers |-> a])
    \/ submit_lookup(GradeTask)
    \/ submit_insert(GradeTask)

SpecGrade == InitGrade /\ [][NextGrade]_vars

\* a quiz of up to MaxLen questions graded again and again, on every answer
\* sequence of at most one answer more than it has questions
RegradeQuizzes ==
    {QuizDoc("drawn", "Drawn Quiz", [i \in 1..n |-> Question(Options, (i + k) % NumOptions)]) :
        n \in 0..MaxLen, k \in 0..(NumOptions - 1)}

RegradeInputs(quiz) == SeqsUpTo(0..(NumOptions - 1), Len(quiz.questions) + 1)

InitRegrade == InitDrawn(RegradeQuizzes)

NextRegrade ==
    \/ \E a \in RegradeInputs(DrawnQuiz) :
          submit_call(GradeTask, DrawnQuiz._id, [user_email |-> "ann@example.org", answers |-> a])
    \/ submit_lookup(GradeTask)
    \/ submit_insert(GradeTask)
    \/ task_return(GradeTask)

SpecRegrade == InitRegrade /\ [][NextRegrade]_vars

(***************************************************************************)
(* Progress over a drawn attempt history                                   *)
(***************************************************************************)
ScoreInputs == {40, 70, 90}

HistoryDocs ==
    {AttemptDoc(u, q, <<>>, sc) :
        u \in Emails, q \in QuizIdInputs \ {MissingId}, sc \in ScoreInputs}

RECURSIVE StoreAll(_, _, _, _)
StoreAll(store, coll, docs, id) ==
    IF docs = <<>> THEN store
    ELSE StoreAll(create_document(store, coll, Head(docs), id), coll, Tail(docs), id + 1)

InitProgress ==
    /\ \E h \in SeqsUpTo(HistoryDocs, MaxHistory) :
          /\ db = StoreAll(SeededDb, "attempt", h, NDesired + 1)
          /\ nextId = NDesired + 1 + Len(h)
    /\ phase = "serving"
    /\ seedStep = NDesired + 1
    /\ seedAt = "get"
    /\ seedErr = "none"
    /\ passes = 1
    /\ tasks = IdleTasks
    /\ resp = NoResp

NextProgress == \E email \in Emails : get_progress(email)

SpecProgress == InitProgress /\ [][NextProgress]_vars

(***************************************************************************)
(* Properties                                                              *)
(***************************************************************************)
NaturalKey(coll) == IF coll = "quiz" THEN "lesson_slug" ELSE "slug"
Curriculum == {"track", "lesson", "quiz"}

HasKey(store, e) ==
    \E k \in DOMAIN store[e.coll] :
        store[e.coll][k][NaturalKey(e.coll)] = e.doc[NaturalKey(e.coll)]

KeyCount(store, e) ==
    Cardinality({k \in DOMAIN store[e.coll] :
        store[e.coll][k][NaturalKey(e.coll)] = e.doc[NaturalKey(e.coll)]})

IsPrefix(s, t) == Len(s) <= Len(t) /\ SubSeq(t, 1, Len(s)) = s

FairSpecSeed == SpecSeed /\ WF_vars(NextSeed)

\* C1: whatever number of seeding passes ran, complete or cut short by a store
\* failure, no two tracks share a slug, no two lessons share a slug and no two
\* quizzes share a lesson_slug.
C1_NoDuplicateNaturalKeys ==
    \A c \in Curriculum : \A j, k \in DOMAIN db[c] :
        db[c][j][NaturalKey(c)] = db[c][k][NaturalKey(c)] => j = k

\* a second pass ran every ensure_* again and each desired key is stored exactly once
C1_Witness ==
    /\ passes >= 2 /\ phase = "serving" /\ seedErr = "none"
    /\ \A i \in 1..NDesired : KeyCount(db, Desired[i]) = 1

\* C2: a store failure in seed_data is caught there: once the error is caught the
\* process is serving, and every startup leads to serving.
C2_SeedFailureNeverBlocksStartup ==
    /\ [](seedErr = "error" => phase = "serving")
    /\ (phase = "startup") ~> (phase = "serving")

\* create_document failed while ensuring a quiz, and the process serves
C2_Witness ==
    /\ seedErr = "error" /\ phase = "serving"
    /\ seedAt = "create" /\ Desired[seedStep].coll = "quiz"

\* C3: every seeding step leaves the stored documents as they are, inserts at most
\* one document, and only one whose natural key was missing; a pass that met no
\* failure ends with a document for every desired natural key.
C3_SeedingFillsOnlyTheGaps ==
    [][ /\ \A c \in Collections : IsPrefix(db[c], db'[c])
        /\ db' # db =>
              \E i \in 1..NDesired :
                  /\ ~HasKey(db, Desired[i])
                  /\ db' = [db EXCEPT ![Desired[i].coll] =
                                Append(@, [_id |-> nextId] @@ Desired[i].doc)]
        /\ (phase' = "serving" /\ seedErr' = "none") =>
              \A i \in 1..NDesired : HasKey(db', Desired[i])
      ]_vars

\* a first pass without failure completed a store that held a quiz before any track
C3_Witness ==
    /\ passes = 1 /\ phase = "serving" /\ seedErr = "none"
    /\ \A i \in 1..NDesired : KeyCount(db, Desired[i]) = 1
    /\ \E k \in DOMAIN db["quiz"] : db["quiz"][k]._id < db["track"][1]._id

Graded(t) == tasks[t].pc = "done" /\ tasks[t].resp.status = 200

\* the quiz a graded task was graded against
QuizOf(t) == CHOOSE q \in {db["quiz"][k] : k \in DOMAIN db["quiz"]} : q._id = tasks[t].quiz_id

RightPositions(answers, questions) ==
    {i \in 1..Min(Len(answers), Len(questions)) : answers[i] = questions[i].answer_index}

CorrectAnswers(quiz) == [i \in 1..Len(quiz.questions) |-> quiz.questions[i].answer_index]

WithinBounds(quiz) ==
    \A i \in 1..Len(quiz.questions) :
        quiz.questions[i].answer_index \in 0..(Len(quiz.questions[i].options) - 1)

\* C4: a graded submission returns total = number of questions, correct = number
\* of answered positions that match, and score = floor(100 * correct / max(1, total)).
C4_ScoreIsFloorOfPercentage ==
    \A t \in TaskIds : Graded(t) =>
        LET questions == QuizOf(t).questions
            body      == tasks[t].resp.body
        IN  /\ body.total = Len(questions)
            /\ body.correct = Cardinality(RightPositions(tasks[t].payload.answers, questions))
            /\ body.score = (100 * body.correct) \div Max(1, body.total)

\* C5 as stated: for every quiz with answer indexes within bounds, the quiz's own
\* correct answers score 100.
C5_ExactAnswersScore100 ==
    \A t \in TaskIds :
        (Graded(t) /\ WithinBounds(QuizOf(t))
           /\ tasks[t].payload.answers = CorrectAnswers(QuizOf(t)))
        => tasks[t].resp.body.score = 100

\* C5 amended: for every quiz with at least one question and answer indexes within
\* bounds, the quiz's own correct answers score 100.
C5_ExactAnswersScore100_NonEmptyQuiz ==
    \A t \in TaskIds :
        (Graded(t) /\ WithinBounds(QuizOf(t))
           /\ Len(QuizOf(t).questions) >= 1
           /\ tasks[t].payload.answers = CorrectAnswers(QuizOf(t)))
        => tasks[t].resp.body.score = 100

\* a long quiz answered entirely right
C5_Witness ==
    \E t \in TaskIds :
        /\ Graded(t) /\ WithinBounds(QuizOf(t))
        /\ Len(QuizOf(t).questions) > MaxLen
        /\ tasks[t].payload.answers = CorrectAnswers(QuizOf(t))
        /\ tasks[t].resp.body.score = 100

\* C6: every stored attempt has a score in 0..100, and two stored attempts with the
\* same quiz_id and the same answers have the same score.
C6_ScoreInRangeAndDetermined ==
    /\ \A k \in DOMAIN db["attempt"] : db["attempt"][k].score \in 0..100
    /\ \A j, k \in DOMAIN db["attempt"] :
          (/\ db["attempt"][j].quiz_id = db["attempt"][k].quiz_id
           /\ db["attempt"][j].answers = db["attempt"][k].answers)
          => db["attempt"][j].score = db["attempt"][k].score

\* the same answers were graded twice, to a score strictly inside the range
C6_Witness ==
    \E j, k \in DOMAIN db["attempt"] :
        /\ j # k
        /\ db["attempt"][j].answers = db["attempt"][k].answers
        /\ db["attempt"][j].score > 0 /\ db["attempt"][j].score < 100

NoQuizWithId(id) == \A k \in DOMAIN db["quiz"] : db["quiz"][k]._id # id

\* C7: when the lookup of a submission finds no quiz with the given id, the request
\* ends there with 404 "Quiz not found", and the store is exactly as it was.
C7_UnknownQuizIs404WithoutEffect ==
    [][ \A t \in TaskIds :
          (tasks[t].pc = "lookup" /\ tasks'[t] # tasks[t] /\ NoQuizWithId(tasks[t].quiz_id))
          => /\ tasks'[t].pc = "done"
             /\ tasks'[t].resp = HTTPException(404, "Quiz not found")
             /\ db' = db
             /\ nextId' = nextId
      ]_vars

\* a submission for an unknown id ended with 404 while another one was stored
C7_Witness ==
    /\ \E t \in TaskIds : tasks[t].pc = "done" /\ tasks[t].resp.status = 404
    /\ \E t \in TaskIds : Graded(t)
    /\ Len(db["attempt"]) = 1

Range(f) == {f[x] : x \in DOMAIN f}

MyAttempts(email) == {a \in Range(db["attempt"]) : a.user_email = email}
AttemptedQuizzes(email) == {a.quiz_id : a \in MyAttempts(email)}
BestScore(email, q) ==
    CHOOSE s \in {a.score : a \in {b \in MyAttempts(email) : b.quiz_id = q}} :
        \A a \in MyAttempts(email) : a.quiz_id = q => a.score <= s

C9_RequestsOnlyAppendAttempts ==
    [][ /\ \A c \in Curriculum : db'[c] = db[c]
        /\ IsPrefix(db["attempt"], db'["attempt"])
        /\ \A t \in TaskIds :
              (tasks[t].pc = "insert" /\ tasks'[t].pc = "done" /\ tasks'[t].resp.status = 200)
              => /\ Len(db'["attempt"]) = Len(db["attempt"]) + 1
                 /\ LET a == db'["attempt"][Len(db'["attempt"])]
                    IN  /\ a.user_email = tasks[t].payload.user_email
                        /\ a.quiz_id = tasks[t].quiz_id
                        /\ a.answers = tasks[t].payload.answers
        /\ (\A t \in TaskIds : ~(tasks[t].pc = "insert" /\ tasks'[t].pc = "done"))
              => db'["attempt"] = db["attempt"]
      ]_vars

\* a two-answer submission was stored and the learner's progress was read after it
C9_Witness ==
    /\ Len(db["attempt"]) >= 1
    /\ Len(db["attempt"][1].answers) = 2
    /\ resp.req[1] = "get_progress"
    /\ resp.body.best_scores # <<>>

\* what a submission returns and stores when it runs alone against the seeded store
Alone(quiz_id, payload) ==
    LET quizzes == get_documents(SeededDb, "quiz", [_id |-> quiz_id], 1)
    IN  IF quizzes = <<>>
        THEN [resp |-> HTTPException(404, "Quiz not found"), stored |-> <<>>]
        ELSE LET total   == Len(quizzes[1].questions)
                 correct == count_correct(payload.answers, quizzes[1].questions, 1)
                 score   == score_percent(correct, total)
             IN  [resp |-> Ok([score |-> score, correct |-> correct, total |-> total]),
                  stored |-> <<AttemptDoc(payload.user_email, quiz_id, payload.answers, score)>>]

Orderings(S) ==
    {f \in [1..Cardinality(S) -> S] : \A i, j \in DOMAIN f : f[i] = f[j] => i = j}

\* C10: however the submissions interleave at their lookup and at their insert, a
\* finished task has the response it has when run alone, and the attempt
\* collection is what running the stored submissions one after another, in some
\* order, leaves: one attempt for each of them.
C10_SubmissionsAreSerializable ==
    LET done   == {t \in TaskIds : tasks[t].pc = "done"}
        alone  == [t \in done |-> Alone(tasks[t].quiz_id, tasks[t].payload)]
        graded == {t \in done : alone[t].stored # <<>>}
    IN  /\ \A t \in done : tasks[t].resp = alone[t].resp
        /\ \E order \in Orderings(graded) :
              db["attempt"] =
                  [i \in DOMAIN order |-> [_id |-> NDesired + i] @@ alone[order[i]].stored[1]]

\* every task stored an attempt for the same learner and quiz, and the task that
\* was called with other answers than task 1 was stored ahead of it
C10_Witness ==
    /\ \A t \in TaskIds : Graded(t)
    /\ \A t \in TaskIds : tasks[t].quiz_id = tasks[1].quiz_id
    /\ \A t \in TaskIds : tasks[t].payload.user_email = tasks[1].payload.user_email
    /\ db["attempt"][1].answers # tasks[1].payload.answers
    /\ db["attempt"][Len(db["attempt"])].answers = tasks[1].payload.answers

====
